---- MODULE Spec2Model ----
(***************************************************************************)
(* The Windows CPU check (pkg/collector/corechecks/system/cpu_windows.go):  *)
(* Configure resolves the logical CPU count and the interrupt-time counter, *)
(* Run samples the cumulative CPU times, emits the rates against the stored *)
(* baseline through the sender and stores the new baseline.                 *)
(*                                                                         *)
(* float64 values are modelled as exact rationals extended with +Inf, -Inf  *)
(* and NaN (rounding is abstracted away, division by zero is not).          *)
(* uint64 arithmetic of Times is modelled modulo 2^WordBits.                *)
(***************************************************************************)
EXTENDS Integers, Naturals, Sequences, FiniteSets, TLC

(* ------------------------------ bounds --------------------------------- *)

\* raw tick counts the OS reports are drawn from 0..MaxTick
MaxTick == 1
\* readings of the live interrupt-time counter are drawn from 0..MaxCounter
MaxCounter == 1
\* width of the unsigned integers of Times (uint64 in the source, scaled down)
WordBits == 12
\* in-flight Run invocations
Threads == {1, 2}

(* ------------------------- float64 arithmetic --------------------------- *)

Abs(i) == IF i < 0 THEN -i ELSE i

Sgn(i) == IF i < 0 THEN -1 ELSE IF i > 0 THEN 1 ELSE 0

RECURSIVE GCD(_, _)
GCD(a, b) == IF b = 0 THEN a ELSE GCD(b, a % b)

\* the finite float n/d (d > 0), in lowest terms
Num(n, d) ==
    LET g == GCD(Abs(n), d)
    IN  [k |-> "num", n |-> n \div g, d |-> d \div g]

Inf(s) == [k |-> "inf", n |-> s, d |-> 1]

NaN == [k |-> "nan", n |-> 0, d |-> 1]

Zero == Num(0, 1)

\* float64(i) for an integer i
F(i) == Num(i, 1)

\* a + b on float64
FAdd(a, b) ==
    IF a.k = "nan" \/ b.k = "nan" THEN NaN
    ELSE IF a.k = "inf" /\ b.k = "inf" THEN (IF a.n = b.n THEN a ELSE NaN)
    ELSE IF a.k = "inf" THEN a
    ELSE IF b.k = "inf" THEN b
    ELSE Num(a.n * b.d + b.n * a.d, a.d * b.d)

FNeg(a) == [a EXCEPT !.n = -a.n]

\* a - b on float64
FSub(a, b) == FAdd(a, FNeg(b))

\* a * b on float64
FMul(a, b) ==
    IF a.k = "nan" \/ b.k = "nan" THEN NaN
    ELSE IF a.k = "inf" \/ b.k = "inf"
         THEN (IF a.n = 0 \/ b.n = 0 THEN NaN ELSE Inf(Sgn(a.n) * Sgn(b.n)))
    ELSE Num(a.n * b.n, a.d * b.d)

\* a / b on float64: a division by zero yields an infinity or NaN, no panic
FDiv(a, b) ==
    IF a.k = "nan" \/ b.k = "nan" THEN NaN
    ELSE IF a.k = "inf"
         THEN (IF b.k = "inf" THEN NaN
               ELSE Inf(IF b.n < 0 THEN -a.n ELSE a.n))
    ELSE IF b.k = "inf" THEN Zero
    ELSE IF b.n = 0 THEN (IF a.n = 0 THEN NaN ELSE Inf(Sgn(a.n)))
    ELSE Num(a.n * b.d * Sgn(b.n), a.d * Abs(b.n))

(* ------------------------------ TimesStat ------------------------------- *)

\* the zero value of TimesStat
ZeroTimes == [CPU |-> "", User |-> Zero, System |-> Zero, Idle |-> Zero]

\* mutant of Total: the idle ticks are left out
TotalWithoutIdle(c) == FAdd(c.User, c.System)

\* TimesStat.Total
Total(c) == FAdd(FAdd(c.User, c.System), c.Idle)

\* 2^WordBits
RECURSIVE Pow2(_)
Pow2(w) == IF w = 0 THEN 1 ELSE 2 * Pow2(w - 1)

\* what GetSystemTimes can fill in: the instants of a small machine, and the
\* two instants of a four-CPU host with 1000 and 1200 ticks in total
RawTimes ==
    [idle : 0..MaxTick, kernel : 0..MaxTick, user : 0..MaxTick]
        \cup {[idle |-> 850, kernel |-> 900, user |-> 100],
              [idle |-> 990, kernel |-> 1060, user |-> 140]}

\* the TimesStat that Times builds from the three FILETIMEs
TimesStatOf(raw) ==
    LET system == (raw.kernel - raw.idle) % Pow2(WordBits)
    IN  [CPU |-> "cpu-total", User |-> F(raw.user), System |-> F(system),
         Idle |-> F(raw.idle)]

\* the outcomes of times(): an error, an empty result with no error, or one
\* TimesStat
TimesResults ==
    {[err |-> TRUE, n |-> 0, t |-> ZeroTimes], [err |-> FALSE, n |-> 0, t |-> ZeroTimes]}
        \cup {[err |-> FALSE, n |-> 1, t |-> TimesStatOf(raw)] : raw \in RawTimes}

(* ------------------------------ the state ------------------------------- *)

VARIABLES
    nbCPU,        \* CPUCheck.nbCPU
    lastNbCycle,  \* CPUCheck.lastNbCycle
    lastTimes,    \* CPUCheck.lastTimes
    counter,      \* CPUCheck.counter: "nil" or "handle"
    state,        \* "Unconfigured" or "Configured": the last Configure returned nil
    cfgRet,       \* what the last Configure returned: "none" before the first call
    cfgData,      \* the payload the last Configure was given: "none" before the first call
    seeded,       \* some Run on this instance has stored a baseline
    lastGood,     \* the most recent returned Run whose sample succeeded: its snapshot
                  \* and cycle count, and whether a sample has failed since
    pc,           \* per Run invocation: the position in Run
    sample,       \* per Run invocation: what times() returned (cpuTimes, err)
    nbCycle,      \* per Run invocation: the local nbCycle
    entry,        \* per Run invocation: lastNbCycle, lastTimes and seeded on entry
    calls,        \* per Run invocation: the calls made on the sender, in order
    valErr,       \* per Run invocation: GetSingleValue returned an error
    ret           \* per Run invocation: the value Run returns

vars == <<nbCPU, lastNbCycle, lastTimes, counter, state, cfgRet, cfgData, seeded,
          lastGood, pc, sample, nbCycle, entry, calls, valErr, ret>>

fields == <<nbCPU, lastNbCycle, lastTimes, counter>>

locals == <<pc, sample, nbCycle, entry, calls, valErr, ret>>

\* times() has not been called in this invocation
NoSample == [err |-> FALSE, n |-> -1, t |-> ZeroTimes]

\* no Run has sampled yet
NoGood == [t |-> ZeroTimes, nb |-> Zero, failedSince |-> FALSE]

NoEntry == [lastNbCycle |-> Zero, lastTimes |-> ZeroTimes, seeded |-> FALSE]

\* cpuFactory: a fresh instance, every field at its zero value
Init ==
    /\ nbCPU = Zero
    /\ lastNbCycle = Zero
    /\ lastTimes = ZeroTimes
    /\ counter = "nil"
    /\ state = "Unconfigured"
    /\ cfgRet = "none"
    /\ cfgData = "none"
    /\ seeded = FALSE
    /\ lastGood = NoGood
    /\ pc = [th \in Threads |-> "idle"]
    /\ sample = [th \in Threads |-> NoSample]
    /\ nbCycle = [th \in Threads |-> Zero]
    /\ entry = [th \in Threads |-> NoEntry]
    /\ calls = [th \in Threads |-> <<>>]
    /\ valErr = [th \in Threads |-> FALSE]
    /\ ret = [th \in Threads |-> "none"]

(* ------------------------------ Configure ------------------------------- *)

\* what host metadata can hold under cpu_logical_processors
CpuInfoEntries == {"", "abc", "0", "1", "2", "4"}

\* strconv.ParseFloat(s, 64): the value, which is 0 when s does not parse
ParseFloat(s) ==
    IF s = "1" THEN F(1)
    ELSE IF s = "2" THEN F(2)
    ELSE IF s = "4" THEN F(4)
    ELSE Zero

\* pdhutil.GetCounterSet: a handle and no error, or no handle and an error
GetCounterSetResults ==
    {[counter |-> "handle", err |-> FALSE], [counter |-> "nil", err |-> TRUE]}

\* the payloads (data, initConfig) Configure can be given: an empty one, or
\* one of a shape the check does not know
ConfigPayloads == {"empty", "unrecognized"}

\* mutant of ConfigureEffect: a payload of unknown shape is rejected
ConfigureEffectValidating(data, infoErr, cpuEntry, cs) ==
    IF data = "unrecognized"
    THEN [nbCPU |-> nbCPU, counter |-> counter, ret |-> "payload"]
    ELSE IF infoErr
    THEN [nbCPU |-> nbCPU, counter |-> counter, ret |-> "cpuinfo"]
    ELSE [nbCPU |-> ParseFloat(cpuEntry), counter |-> cs.counter,
          ret |-> IF cs.err THEN "counter" ELSE "nil"]

\* the fields Configure leaves behind and the value it returns, given its
\* payload (which it does not read) and the outcome of cpu.GetCpuInfo and of
\* pdhutil.GetCounterSet
ConfigureEffect(data, infoErr, cpuEntry, cs) ==
    IF infoErr
    THEN [nbCPU |-> nbCPU, counter |-> counter, ret |-> "cpuinfo"]
    ELSE [nbCPU |-> ParseFloat(cpuEntry), counter |-> cs.counter,
          ret |-> IF cs.err THEN "counter" ELSE "nil"]

\* CPUCheck.Configure; the collector configures an instance while no Run of
\* it is in flight
Configure ==
    /\ \A th \in Threads : pc[th] = "idle"
    /\ \E data \in ConfigPayloads, infoErr \in BOOLEAN, cpuEntry \in CpuInfoEntries,
          cs \in GetCounterSetResults :
          LET e == ConfigureEffect(data, infoErr, cpuEntry, cs)
          IN  /\ cfgData' = data
              /\ nbCPU' = e.nbCPU
              /\ counter' = e.counter
              /\ cfgRet' = e.ret
              /\ state' = IF e.ret = "nil" THEN "Configured" ELSE "Unconfigured"
    /\ UNCHANGED <<lastNbCycle, lastTimes, seeded, lastGood, locals>>

(* --------------------------------- Run ---------------------------------- *)

CategoryGauges ==
    <<"system.cpu.user", "system.cpu.system", "system.cpu.iowait",
      "system.cpu.idle", "system.cpu.stolen", "system.cpu.guest">>

InterruptGauge == "system.cpu.interrupt"

\* sender.Gauge(name, value, "", nil)
Gauge(name, value) == [name |-> name, value |-> value]

\* sender.Commit()
Commit == [name |-> "Commit", value |-> Zero]

\* the outcomes of c.counter.GetSingleValue(): a value, or an error
GetSingleValueResults ==
    {[err |-> TRUE, val |-> 0]} \cup {[err |-> FALSE, val |-> v] : v \in 0..MaxCounter}

\* the scheduler dispatches a Run of a configured instance when no other Run
\* of it is in flight
Dispatchable == state = "Configured" /\ \A th \in Threads : pc[th] = "idle"

\* Run, lines 67-71: get the sender, return its error
RunBegin(th) ==
    /\ pc[th] = "idle"
    /\ Dispatchable
    /\ entry' = [entry EXCEPT ![th] =
                    [lastNbCycle |-> lastNbCycle, lastTimes |-> lastTimes,
                     seeded |-> seeded]]
    /\ \E senderErr \in BOOLEAN :
          IF senderErr
          THEN /\ ret' = [ret EXCEPT ![th] = "errSender"]
               /\ pc' = [pc EXCEPT ![th] = "ret"]
          ELSE /\ ret' = [ret EXCEPT ![th] = "none"]
               /\ pc' = [pc EXCEPT ![th] = "sample"]
    /\ UNCHANGED <<fields, state, cfgRet, cfgData, lastGood, seeded, sample, nbCycle, calls, valErr>>

\* mutant of SampleFailed: the empty result is not tested
SampleFailedOnErrOnly(r) == r.err

\* the tests of lines 74 and 77: times() failed or returned nothing
SampleFailed(r) == r.err \/ r.n < 1

\* the per-CPU cycle count of a snapshot (line 84)
NbCycle(ts, n) == FDiv(Total(ts), n)

\* mutant of RunSample: a failed sample drops the stored cycle count
RunSampleResetsOnError(th) ==
    /\ pc[th] = "sample"
    /\ \E r \in TimesResults :
          /\ sample' = [sample EXCEPT ![th] = r]
          /\ IF SampleFailed(r)
             THEN /\ ret' = [ret EXCEPT ![th] = IF r.err THEN "errTimes" ELSE "errEmpty"]
                  /\ pc' = [pc EXCEPT ![th] = "ret"]
                  /\ lastNbCycle' = Zero
                  /\ UNCHANGED nbCycle
             ELSE /\ nbCycle' = [nbCycle EXCEPT ![th] = NbCycle(r.t, nbCPU)]
                  /\ pc' = [pc EXCEPT ![th] = "rates"]
                  /\ UNCHANGED <<ret, lastNbCycle>>
    /\ UNCHANGED <<nbCPU, lastTimes, counter, state, cfgRet, cfgData, lastGood, seeded,
                   entry, calls, valErr>>

\* Run, lines 73-84: sample, return on an error or an empty result
RunSample(th) ==
    /\ pc[th] = "sample"
    /\ \E r \in TimesResults :
          /\ sample' = [sample EXCEPT ![th] = r]
          /\ IF SampleFailed(r)
             THEN /\ ret' = [ret EXCEPT ![th] = IF r.err THEN "errTimes" ELSE "errEmpty"]
                  /\ pc' = [pc EXCEPT ![th] = "ret"]
                  /\ UNCHANGED nbCycle
             ELSE /\ nbCycle' = [nbCycle EXCEPT ![th] = NbCycle(r.t, nbCPU)]
                  /\ pc' = [pc EXCEPT ![th] = "rates"]
                  /\ UNCHANGED ret
    /\ UNCHANGED <<fields, state, cfgRet, cfgData, lastGood, seeded, entry, calls, valErr>>

\* mutant of HasLast: the rates are computed on every Run
HasLastAlways(last) == TRUE

\* the test of line 86
HasLast(last) == last # Zero

\* mutant of Rates: the scale is taken from the cycle count, not from its delta
RatesScaledByCycles(cur, nb, prev, lastNb, n) ==
    LET toPercent == FDiv(F(100), nb)
        user == FDiv(FSub(cur.User, prev.User), n)
        system == FDiv(FSub(cur.System, prev.System), n)
        idle == FDiv(FSub(cur.Idle, prev.Idle), n)
    IN  <<FMul(user, toPercent), FMul(system, toPercent), FMul(Zero, toPercent),
          FMul(idle, toPercent), FMul(Zero, toPercent), FMul(Zero, toPercent)>>

\* the six values of lines 88-95 and 97-102, in the order they are emitted
Rates(cur, nb, prev, lastNb, n) ==
    LET toPercent == FDiv(F(100), FSub(nb, lastNb))
        user == FDiv(FSub(cur.User, prev.User), n)
        system == FDiv(FSub(cur.System, prev.System), n)
        iowait == Zero
        idle == FDiv(FSub(cur.Idle, prev.Idle), n)
        stolen == Zero
        guest == Zero
    IN  <<FMul(user, toPercent), FMul(system, toPercent), FMul(iowait, toPercent),
          FMul(idle, toPercent), FMul(stolen, toPercent), FMul(guest, toPercent)>>

\* the Gauge calls of lines 86-103
RateCalls(cur, nb, prev, lastNb, n) ==
    IF HasLast(lastNb)
    THEN [i \in 1..6 |-> Gauge(CategoryGauges[i], Rates(cur, nb, prev, lastNb, n)[i])]
    ELSE <<>>

\* mutant of RunRates: the new cycle count is stored before the gauges are
\* committed
RunRatesStoresFirst(th) ==
    /\ pc[th] = "rates"
    /\ calls' = [calls EXCEPT ![th] =
                    @ \o RateCalls(sample[th].t, nbCycle[th], lastTimes, lastNbCycle,
                                   nbCPU)]
    /\ lastNbCycle' = nbCycle[th]
    /\ pc' = [pc EXCEPT ![th] = "counter"]
    /\ UNCHANGED <<nbCPU, lastTimes, counter, state, cfgRet, cfgData, lastGood, seeded,
                   sample, nbCycle, entry, valErr, ret>>

\* Run, lines 86-103
RunRates(th) ==
    /\ pc[th] = "rates"
    /\ calls' = [calls EXCEPT ![th] =
                    @ \o RateCalls(sample[th].t, nbCycle[th], lastTimes, lastNbCycle,
                                   nbCPU)]
    /\ pc' = [pc EXCEPT ![th] = "counter"]
    /\ UNCHANGED <<fields, state, cfgRet, cfgData, lastGood, seeded, sample, nbCycle, entry, valErr, ret>>

\* the Gauge call of lines 104-109
CounterCalls(r) ==
    IF r.err THEN <<>> ELSE <<Gauge(InterruptGauge, F(r.val))>>

\* mutant of RunCounter: a failed read makes the Run return the error
RunCounterAborts(th) ==
    /\ pc[th] = "counter"
    /\ \E r \in GetSingleValueResults :
          /\ calls' = [calls EXCEPT ![th] = @ \o CounterCalls(r)]
          /\ valErr' = [valErr EXCEPT ![th] = r.err]
          /\ IF r.err
             THEN /\ ret' = [ret EXCEPT ![th] = "errCounter"]
                  /\ pc' = [pc EXCEPT ![th] = "ret"]
             ELSE /\ pc' = [pc EXCEPT ![th] = "commit"]
                  /\ UNCHANGED ret
    /\ UNCHANGED <<fields, state, cfgRet, cfgData, lastGood, seeded, sample, nbCycle, entry>>

\* Run, lines 104-109: a failed read is logged and the Run goes on
RunCounter(th) ==
    /\ pc[th] = "counter"
    /\ \E r \in GetSingleValueResults :
          /\ calls' = [calls EXCEPT ![th] = @ \o CounterCalls(r)]
          /\ valErr' = [valErr EXCEPT ![th] = r.err]
    /\ pc' = [pc EXCEPT ![th] = "commit"]
    /\ UNCHANGED <<fields, state, cfgRet, cfgData, lastGood, seeded, sample, nbCycle, entry, ret>>

\* Run, line 110
RunCommit(th) ==
    /\ pc[th] = "commit"
    /\ calls' = [calls EXCEPT ![th] = Append(@, Commit)]
    /\ pc' = [pc EXCEPT ![th] = "storeNbCycle"]
    /\ UNCHANGED <<fields, state, cfgRet, cfgData, lastGood, seeded, sample, nbCycle, entry, valErr, ret>>

\* Run, line 112
RunStoreNbCycle(th) ==
    /\ pc[th] = "storeNbCycle"
    /\ lastNbCycle' = nbCycle[th]
    /\ pc' = [pc EXCEPT ![th] = "storeTimes"]
    /\ UNCHANGED <<nbCPU, lastTimes, counter, state, cfgRet, cfgData, lastGood, seeded, sample, nbCycle,
                   entry, calls, valErr, ret>>

\* mutant of RunStoreTimes: the snapshot is kept only when the counter was read
RunStoreTimesUnlessWarned(th) ==
    /\ pc[th] = "storeTimes"
    /\ lastTimes' = IF valErr[th] THEN lastTimes ELSE sample[th].t
    /\ seeded' = TRUE
    /\ ret' = [ret EXCEPT ![th] = "nil"]
    /\ pc' = [pc EXCEPT ![th] = "ret"]
    /\ UNCHANGED <<nbCPU, lastNbCycle, counter, state, cfgRet, cfgData, lastGood, sample, nbCycle, entry,
                   calls, valErr>>

\* Run, lines 113-114
RunStoreTimes(th) ==
    /\ pc[th] = "storeTimes"
    /\ lastTimes' = sample[th].t
    /\ seeded' = TRUE
    /\ ret' = [ret EXCEPT ![th] = "nil"]
    /\ pc' = [pc EXCEPT ![th] = "ret"]
    /\ UNCHANGED <<nbCPU, lastNbCycle, counter, state, cfgRet, cfgData, lastGood, sample, nbCycle, entry,
                   calls, valErr>>

\* Run has returned to the scheduler: its locals are gone
RunReturn(th) ==
    /\ pc[th] = "ret"
    /\ pc' = [pc EXCEPT ![th] = "idle"]
    /\ sample' = [sample EXCEPT ![th] = NoSample]
    /\ nbCycle' = [nbCycle EXCEPT ![th] = Zero]
    /\ entry' = [entry EXCEPT ![th] = NoEntry]
    /\ calls' = [calls EXCEPT ![th] = <<>>]
    /\ valErr' = [valErr EXCEPT ![th] = FALSE]
    /\ ret' = [ret EXCEPT ![th] = "none"]
    /\ lastGood' =
          IF sample[th].n >= 1 /\ ~sample[th].err
          THEN [t |-> sample[th].t, nb |-> nbCycle[th], failedSince |-> FALSE]
          ELSE IF sample[th] # NoSample
          THEN [lastGood EXCEPT !.failedSince = TRUE]
          ELSE lastGood
    /\ UNCHANGED <<fields, state, cfgRet, cfgData, seeded>>

Run(th) ==
    \/ RunBegin(th)
    \/ RunSample(th)
    \/ RunRates(th)
    \/ RunCounter(th)
    \/ RunCommit(th)
    \/ RunStoreNbCycle(th)
    \/ RunStoreTimes(th)
    \/ RunReturn(th)

Next ==
    \/ Configure
    \/ \E th \in Threads : Run(th)

Spec == Init /\ [][Next]_vars

\* the lifecycle Unconfigured -> Configured: Configure is not called again on
\* an instance once it has returned nil
ConfigureOnce == state = "Unconfigured" /\ Configure

NextOneConfigure ==
    \/ ConfigureOnce
    \/ \E th \in Threads : Run(th)

SpecOneConfigure == Init /\ [][NextOneConfigure]_vars

\* a scheduler that does not serialise the Runs of an instance: it dispatches
\* a Run over one in flight. The overlap is bounded: once a baseline is
\* stored, the next Run is dispatched when none is in flight.
DispatchableOverlapping ==
    state = "Configured" /\ (seeded => \A th \in Threads : pc[th] = "idle")

\* Run, lines 67-71, called while another Run of the instance may be in
\* flight: CPUCheck holds no lock and Run takes none
RunBeginOverlapping(th) ==
    /\ pc[th] = "idle"
    /\ DispatchableOverlapping
    /\ entry' = [entry EXCEPT ![th] =
                    [lastNbCycle |-> lastNbCycle, lastTimes |-> lastTimes,
                     seeded |-> seeded]]
    /\ \E senderErr \in BOOLEAN :
          IF senderErr
          THEN /\ ret' = [ret EXCEPT ![th] = "errSender"]
               /\ pc' = [pc EXCEPT ![th] = "ret"]
          ELSE /\ ret' = [ret EXCEPT ![th] = "none"]
               /\ pc' = [pc EXCEPT ![th] = "sample"]
    /\ UNCHANGED <<fields, state, cfgRet, cfgData, lastGood, seeded, sample, nbCycle, calls, valErr>>

RunOverlapping(th) ==
    \/ RunBeginOverlapping(th)
    \/ RunSample(th)
    \/ RunRates(th)
    \/ RunCounter(th)
    \/ RunCommit(th)
    \/ RunStoreNbCycle(th)
    \/ RunStoreTimes(th)
    \/ RunReturn(th)

NextOverlap ==
    \/ ConfigureOnce
    \/ \E th \in Threads : RunOverlapping(th)

\* overlapping Runs of one instance; the statements of one step are taken
\* together, so the interleavings are those of the steps
SpecOverlap == Init /\ [][NextOverlap]_vars

(* ------------------------- vocabulary of the claims --------------------- *)

CategoryNames == {CategoryGauges[i] : i \in 1..6}

\* the names of the calls a Run invocation has made on the sender so far
Names(th) == {calls[th][i].name : i \in DOMAIN calls[th]}

\* the values a Run invocation has emitted under a gauge name
Values(th, name) == {calls[th][i].value : i \in {j \in DOMAIN calls[th] : calls[th][j].name = name}}

Count(th, name) == Cardinality({i \in DOMAIN calls[th] : calls[th][i].name = name})

EmitsCategory(th) == Names(th) \cap CategoryNames # {}

\* times() was called in this invocation and failed (error, or empty result)
SamplerFailed(th) == sample[th] # NoSample /\ (sample[th].err \/ sample[th].n < 1)

\* times() was called in this invocation and returned a snapshot
SamplerOk(th) == ~sample[th].err /\ sample[th].n >= 1

Returned(th) == pc[th] = "ret"

PastRates == {"counter", "commit", "storeNbCycle", "storeTimes", "ret"}

\* the integer tick total of a snapshot
TotalTicks(ts) == ts.User.n + ts.System.n + ts.Idle.n

(* -------------------------------- C1 ------------------------------------ *)

\* C1: a category gauge is emitted only in a Run that was preceded by a
\* successful Run on the instance; a Run with no earlier successful Run that
\* returns nil has made no call but system.cpu.interrupt and Commit, and has
\* stored the snapshot it sampled as the baseline.
C1_FirstRunOnlySeeds ==
    \A th \in Threads :
        /\ EmitsCategory(th) => entry[th].seeded
        /\ (Returned(th) /\ ~entry[th].seeded /\ ret[th] = "nil") =>
              /\ Names(th) \subseteq {InterruptGauge, "Commit"}
              /\ lastTimes = sample[th].t
              /\ lastNbCycle = nbCycle[th]

\* a first Run that emitted the interrupt gauge and stored a non-zero baseline
C1_Witness ==
    \E th \in Threads :
        /\ Returned(th) /\ ~entry[th].seeded /\ ret[th] = "nil"
        /\ InterruptGauge \in Names(th)
        /\ lastTimes = sample[th].t /\ TotalTicks(lastTimes) > 0

(* -------------------------------- C2 ------------------------------------ *)

\* C2: when times() fails in a Run (an error, or an empty result), the Run
\* returns an error, has made no call on the sender, and lastNbCycle and
\* lastTimes are what they were when the Run began.
C2_SampleErrorLeavesState ==
    \A th \in Threads :
        (Returned(th) /\ SamplerFailed(th)) =>
            /\ ret[th] \in {"errTimes", "errEmpty"}
            /\ calls[th] = <<>>
            /\ lastNbCycle = entry[th].lastNbCycle
            /\ lastTimes = entry[th].lastTimes

\* a Run of an instance that holds a baseline got an empty result
C2_Witness ==
    \E th \in Threads :
        /\ Returned(th) /\ SamplerFailed(th) /\ ~sample[th].err
        /\ entry[th].seeded /\ TotalTicks(lastTimes) > 0

(* -------------------------------- C3 ------------------------------------ *)

\* C3 (as claimed): a Run that samples a snapshot whose per-CPU cycle count
\* equals the stored one (an earlier Run succeeded, delta_cycles = 0) emits
\* none of the six category gauges, and returns nil.
C3_ZeroDeltaSkips ==
    \A th \in Threads :
        (pc[th] \in PastRates /\ SamplerOk(th) /\ entry[th].seeded
            /\ nbCycle[th].k = "num" /\ nbCycle[th] = entry[th].lastNbCycle) =>
            /\ ~EmitsCategory(th)
            /\ Returned(th) => ret[th] = "nil"

(* -------------------------------- C4 ------------------------------------ *)

\* C4 (as claimed): a Configure in which GetCounterSet failed (it got past
\* the CPU info and left no counter handle) returns nil and the check is
\* Configured.
C4_CounterFailureIsSoft ==
    (cfgRet \notin {"none", "cpuinfo"} /\ counter = "nil") =>
        (cfgRet = "nil" /\ state = "Configured")

(* -------------------------------- C5 ------------------------------------ *)

\* C5 (as claimed): in a returned Run whose sample succeeded, if a baseline
\* was stored by an earlier Run and the counter read failed, the six category
\* gauges were emitted, system.cpu.interrupt was not, Commit was called once
\* and Run returns nil; if the counter read succeeded, system.cpu.interrupt
\* was emitted.
C5_CounterReadFailureIsSoft ==
    \A th \in Threads :
        (Returned(th) /\ SamplerOk(th)) =>
            /\ (entry[th].seeded /\ valErr[th]) =>
                  /\ CategoryNames \subseteq Names(th)
                  /\ InterruptGauge \notin Names(th)
                  /\ Count(th, "Commit") = 1
                  /\ ret[th] = "nil"
            /\ ~valErr[th] => InterruptGauge \in Names(th)

\* lemma: the same statement for the Runs that found a non-zero lastNbCycle
\* holds; the only Runs that break it found a baseline of zero ticks
CounterReadFailureIsSoftWithNonZeroLast ==
    \A th \in Threads :
        (Returned(th) /\ SamplerOk(th)) =>
            /\ (entry[th].lastNbCycle # Zero /\ valErr[th]) =>
                  /\ CategoryNames \subseteq Names(th)
                  /\ InterruptGauge \notin Names(th)
                  /\ Count(th, "Commit") = 1
                  /\ ret[th] = "nil"
            /\ ~valErr[th] => InterruptGauge \in Names(th)

(* -------------------------------- C6 ------------------------------------ *)

\* C6 (as claimed): after a Configure that returned nil the CPU count is a
\* positive number, so that no Run divides by a zero CPU count.
C6_ConfiguredCpuCountPositive ==
    state = "Configured" => (nbCPU.k = "num" /\ nbCPU.n > 0)

(* -------------------------------- C7 ------------------------------------ *)

\* C7 (as claimed): a Configure call that returns an error changes none of
\* nbCPU, counter, lastNbCycle and lastTimes.
C7_FailedConfigureChangesNothing ==
    [][(Configure /\ cfgRet' # "nil") => UNCHANGED fields]_vars

(* -------------------------------- C8 ------------------------------------ *)

\* C8: every returned Run whose sample succeeded has replaced lastTimes by
\* the snapshot it sampled and lastNbCycle by that snapshot's cycle count,
\* whether or not it was the first Run, delta_cycles was 0 or the counter
\* read failed.
C8_BaselineAlwaysReplaced ==
    \A th \in Threads :
        (Returned(th) /\ SamplerOk(th)) =>
            /\ ret[th] = "nil"
            /\ lastTimes = sample[th].t
            /\ lastNbCycle = nbCycle[th]
            /\ lastNbCycle = FDiv(F(TotalTicks(sample[th].t)), nbCPU)

\* a Run with delta_cycles = 0 whose counter read failed replaced a baseline
\* by a different snapshot
C8_Witness ==
    \E th \in Threads :
        /\ Returned(th) /\ SamplerOk(th) /\ entry[th].seeded /\ valErr[th]
        /\ nbCycle[th] = entry[th].lastNbCycle
        /\ lastTimes = sample[th].t /\ lastTimes # entry[th].lastTimes

(* -------------------------------- C9 ------------------------------------ *)

\* C9: within a Run, Commit is called at most once and no call follows it;
\* the category gauges are queued all six or none; a Run that returns an
\* error has made no call on the sender, and a Run that returns nil has made
\* Commit its last call.
C9_OneBatchPerRun ==
    \A th \in Threads :
        /\ \A i \in DOMAIN calls[th] : calls[th][i] = Commit => i = Len(calls[th])
        /\ "Commit" \in Names(th) =>
              (EmitsCategory(th) =>
                  \A c \in CategoryNames : Count(th, c) = 1)
        /\ Returned(th) =>
              IF ret[th] = "nil"
              THEN calls[th] # <<>> /\ calls[th][Len(calls[th])] = Commit
              ELSE calls[th] = <<>>
        /\ (pc[th] = "idle") => calls[th] = <<>>

\* a Run that queued the six category gauges and the interrupt gauge, then
\* committed
C9_Witness ==
    \E th \in Threads :
        /\ Returned(th) /\ ret[th] = "nil"
        /\ Len(calls[th]) = 8 /\ calls[th][8] = Commit

(* -------------------------------- C10 ----------------------------------- *)

\* the rate of a category in exact arithmetic: 100 * (curr - prev) / dTotal
ExactRate(cur, prev, dTotal) ==
    Num(100 * (cur - prev) * Sgn(dTotal), Abs(dTotal))

\* C10 (as claimed): for consecutive successful snapshots prev, curr with
\* delta_cycles # 0 and CPU count n > 0 (prev normalised by the same n), the
\* Run emits for user, system and idle the value
\* ((curr[c] - prev[c]) / n) * (100 / (Total(curr)/n - Total(prev)/n)).
C10_RateFormula ==
    \A th \in Threads :
        LET cur == sample[th].t
            prev == entry[th].lastTimes
            dTotal == TotalTicks(cur) - TotalTicks(prev)
        IN  (pc[th] \in PastRates /\ SamplerOk(th) /\ entry[th].seeded
                /\ nbCPU.k = "num" /\ nbCPU.n > 0
                /\ entry[th].lastNbCycle = Num(TotalTicks(prev) * nbCPU.d, nbCPU.n)
                /\ dTotal # 0) =>
                /\ Values(th, "system.cpu.user") = {ExactRate(cur.User.n, prev.User.n, dTotal)}
                /\ Values(th, "system.cpu.system") = {ExactRate(cur.System.n, prev.System.n, dTotal)}
                /\ Values(th, "system.cpu.idle") = {ExactRate(cur.Idle.n, prev.Idle.n, dTotal)}

\* lemma: the same statement for the baselines of a non-zero tick total holds
RateFormulaWithNonZeroLast ==
    \A th \in Threads :
        LET cur == sample[th].t
            prev == entry[th].lastTimes
            dTotal == TotalTicks(cur) - TotalTicks(prev)
        IN  (pc[th] \in PastRates /\ SamplerOk(th) /\ entry[th].seeded
                /\ nbCPU.k = "num" /\ nbCPU.n > 0
                /\ TotalTicks(prev) # 0
                /\ entry[th].lastNbCycle = Num(TotalTicks(prev) * nbCPU.d, nbCPU.n)
                /\ dTotal # 0) =>
                /\ Values(th, "system.cpu.user") = {ExactRate(cur.User.n, prev.User.n, dTotal)}
                /\ Values(th, "system.cpu.system") = {ExactRate(cur.System.n, prev.System.n, dTotal)}
                /\ Values(th, "system.cpu.idle") = {ExactRate(cur.Idle.n, prev.Idle.n, dTotal)}

\* the worked example: four CPUs, 1000 ticks then 1200 ticks
ExampleRun(th) ==
    /\ pc[th] \in PastRates /\ nbCPU = F(4)
    /\ entry[th].lastNbCycle = F(250)
    /\ entry[th].lastTimes = TimesStatOf([idle |-> 850, kernel |-> 900, user |-> 100])
    /\ sample[th].t = TimesStatOf([idle |-> 990, kernel |-> 1060, user |-> 140])

\* lemma: the worked example yields user 20, system 10, idle 70
ExampleRates ==
    \A th \in Threads :
        ExampleRun(th) =>
            /\ Values(th, "system.cpu.user") = {F(20)}
            /\ Values(th, "system.cpu.system") = {F(10)}
            /\ Values(th, "system.cpu.idle") = {F(70)}

(* -------------------------------- C11 ----------------------------------- *)

\* x > 0 on float64
FPos(x) == x.k # "nan" /\ x.n > 0

\* the sum of the category values among the first i calls
RECURSIVE SumCategories(_, _)
SumCategories(cs, i) ==
    IF i = 0 THEN Zero
    ELSE FAdd(SumCategories(cs, i - 1),
              IF cs[i].name \in CategoryNames THEN cs[i].value ELSE Zero)

\* delta_cycles of a Run past its sample: nbCycle - lastNbCycle as it found it
DeltaCycles(th) == FSub(nbCycle[th], entry[th].lastNbCycle)

\* C11: in a Run that emitted the category gauges with delta_cycles > 0, the
\* six category rates sum to exactly 100.
C11_RatesSumTo100 ==
    \A th \in Threads :
        (pc[th] \in PastRates /\ EmitsCategory(th) /\ FPos(DeltaCycles(th))) =>
            SumCategories(calls[th], Len(calls[th])) = F(100)

\* a Run that emitted a user rate of 20 with delta_cycles > 0
C11_Witness ==
    \E th \in Threads :
        /\ pc[th] \in PastRates /\ EmitsCategory(th) /\ FPos(DeltaCycles(th))
        /\ Values(th, "system.cpu.user") = {F(20)}

(* -------------------------------- C12 ----------------------------------- *)

\* C12 (as claimed): the System value of a sampled snapshot is in range: it
\* is kernel - idle, or a floor it was clamped to, so that System + Idle does
\* not exceed what an unsigned word holds; a wrapped difference is not handed
\* on.
C12_SystemInRange ==
    \A th \in Threads :
        SamplerOk(th) =>
            sample[th].t.System.n + sample[th].t.Idle.n < Pow2(WordBits)

(* -------------------------------- C13 ----------------------------------- *)

AbsentCategories == {"system.cpu.iowait", "system.cpu.stolen", "system.cpu.guest"}

\* C13 (as claimed): a Run that emits category gauges emits iowait, stolen
\* and guest, each with the value zero.
C13_AbsentCategoriesAreZero ==
    \A th \in Threads :
        EmitsCategory(th) =>
            \A c \in AbsentCategories : Values(th, c) = {Zero}

\* lemma: the same statement for the Runs whose delta_cycles is a finite
\* non-zero number holds
AbsentCategoriesAreZeroWithFiniteDelta ==
    \A th \in Threads :
        (EmitsCategory(th) /\ DeltaCycles(th).k = "num" /\ DeltaCycles(th) # Zero) =>
            \A c \in AbsentCategories : Values(th, c) = {Zero}

(* -------------------------------- C16 ----------------------------------- *)

\* C16 (as claimed): a Run past its rates whose sample succeeded, preceded
\* by a successful Run and with delta_cycles # 0, has emitted the six
\* category gauges, whatever the prior snapshot is.
C16_PriorSnapshotGivesRates ==
    \A th \in Threads :
        (pc[th] \in PastRates /\ SamplerOk(th) /\ entry[th].seeded
            /\ DeltaCycles(th) # Zero) =>
            CategoryNames \subseteq Names(th)

\* lemma: the same statement for the prior snapshots of a non-zero tick total
\* holds
PriorSnapshotGivesRatesWithNonZeroTotal ==
    \A th \in Threads :
        (pc[th] \in PastRates /\ SamplerOk(th) /\ entry[th].seeded
            /\ TotalTicks(entry[th].lastTimes) # 0) =>
            CategoryNames \subseteq Names(th)

(* -------------------------------- C14 ----------------------------------- *)

\* C14 (as claimed): a Configure given a payload of unrecognized shape
\* returns an error and leaves the check Unconfigured.
C14_PayloadValidated ==
    cfgData = "unrecognized" => (cfgRet # "nil" /\ state = "Unconfigured")

\* C14 (amended): Configure does not read its payload: whatever the payload,
\* the only errors it returns are those of the CPU info lookup and of the
\* counter handle, and when it returns nil the check is Configured.
C14_PayloadIgnored ==
    cfgData # "none" =>
        /\ cfgRet \in {"nil", "cpuinfo", "counter"}
        /\ cfgRet = "nil" <=> state = "Configured"

\* a Configure given a payload of unrecognized shape returned nil
C14_Witness ==
    cfgData = "unrecognized" /\ cfgRet = "nil" /\ state = "Configured"

(* -------------------------------- C17 ----------------------------------- *)

\* the rate of one category against a given baseline, as lines 88-102 compute it
RateAgainst(cur, prev, nb, lastNb, n) ==
    FMul(FDiv(FSub(cur, prev), n), FDiv(F(100), FSub(nb, lastNb)))

\* C17: with non-overlapping Runs, the baseline a Run finds is the snapshot
\* and cycle count of the most recent earlier Run whose sample succeeded,
\* however many Runs failed to sample in between, and the rates it emits are
\* computed against that snapshot.
C17_RatesAgainstLastGoodSample ==
    \A th \in Threads :
        /\ pc[th] # "idle" =>
              /\ entry[th].lastTimes = lastGood.t
              /\ entry[th].lastNbCycle = lastGood.nb
        /\ (pc[th] \in PastRates /\ EmitsCategory(th)) =>
              LET cur == sample[th].t
              IN  /\ Values(th, "system.cpu.user") =
                        {RateAgainst(cur.User, lastGood.t.User, nbCycle[th], lastGood.nb, nbCPU)}
                  /\ Values(th, "system.cpu.system") =
                        {RateAgainst(cur.System, lastGood.t.System, nbCycle[th], lastGood.nb, nbCPU)}
                  /\ Values(th, "system.cpu.idle") =
                        {RateAgainst(cur.Idle, lastGood.t.Idle, nbCycle[th], lastGood.nb, nbCPU)}

\* a Run that emitted the rates of the worked example although a Run in
\* between failed to sample
C17_Witness ==
    \E th \in Threads :
        /\ pc[th] \in PastRates /\ EmitsCategory(th) /\ lastGood.failedSince
        /\ Values(th, "system.cpu.user") = {F(20)}

(* -------------------------------- C18 ----------------------------------- *)

\* a step of Run invocation th taken from one of the given positions
StepFrom(th, positions) == pc[th] \in positions /\ pc'[th] # pc[th]

\* C18: nbCPU and counter change only in a step that is no step of a Run
\* (a Configure, taken while no Run is in flight); lastNbCycle and lastTimes
\* change only in the two last steps of a Run, which make no call on the
\* sender and follow its Commit.
C18_StateWrittenOnlyAtEndOfRun ==
    [][/\ (nbCPU' # nbCPU \/ counter' # counter) =>
              (pc' = pc /\ \A th \in Threads : pc[th] = "idle")
       /\ (lastNbCycle' # lastNbCycle \/ lastTimes' # lastTimes) =>
              \E th \in Threads :
                  /\ StepFrom(th, {"storeNbCycle", "storeTimes"})
                  /\ calls[th] # <<>> /\ calls[th][Len(calls[th])] = Commit
                  /\ calls' = calls]_vars

\* a Configure that failed after a Run had stored a baseline left that
\* baseline in place
C18_Witness ==
    /\ seeded /\ state = "Unconfigured" /\ cfgRet = "counter"
    /\ lastNbCycle # Zero /\ TotalTicks(lastTimes) > 0

(* -------------------------------- C19 ----------------------------------- *)

\* a == b on float64: NaN equals nothing, itself included
FEq(a, b) == a.k # "nan" /\ b.k # "nan" /\ a = b

Quiescent == \A th \in Threads : pc[th] = "idle"

\* C19 (as claimed): after one successful Configure, in every state between
\* Runs, lastNbCycle == Total(lastTimes) / nbCPU, and both are zero before
\* the first successful Run.
C19_BaselineHalvesAgree ==
    (state = "Configured" /\ Quiescent) =>
        IF seeded
        THEN FEq(lastNbCycle, FDiv(F(TotalTicks(lastTimes)), nbCPU))
        ELSE lastNbCycle = Zero /\ lastTimes = ZeroTimes

\* lemma: the same statement for a positive CPU count holds
BaselineHalvesAgreeWithPositiveCpuCount ==
    (state = "Configured" /\ Quiescent /\ nbCPU.n > 0) =>
        IF seeded
        THEN FEq(lastNbCycle, FDiv(F(TotalTicks(lastTimes)), nbCPU))
        ELSE lastNbCycle = Zero /\ lastTimes = ZeroTimes

(* -------------------------------- C20 ----------------------------------- *)

\* 0 <= v <= 100 on float64
InPercentRange(v) == v.k = "num" /\ 0 <= v.n /\ v.n <= 100 * v.d

\* user, system and idle of cur are each at least those of prev
NonDecreasing(prev, cur) ==
    /\ prev.User.n <= cur.User.n
    /\ prev.System.n <= cur.System.n
    /\ prev.Idle.n <= cur.Idle.n

InReadModifyWrite(th) == pc[th] \in {"counter", "commit", "storeNbCycle", "storeTimes"}

\* no Run reads or writes the baseline while another one is between its read
\* and its write
OverlapExcluded ==
    \A t1, t2 \in Threads :
        (t1 # t2 /\ InReadModifyWrite(t1)) => ~InReadModifyWrite(t2)

\* between Runs the stored cycle count is the one computed from the stored
\* snapshot
BaselineFromOneSnapshot ==
    (Quiescent /\ seeded) => lastNbCycle = NbCycle(lastTimes, nbCPU)

\* C15 (as claimed): when Runs of one instance overlap, none reads or writes
\* lastNbCycle/lastTimes between another's read of the baseline and its write
\* of the new one, so the stored lastNbCycle and lastTimes always come from
\* the same snapshot.
C15_RunsMutuallyExclusive == OverlapExcluded /\ BaselineFromOneSnapshot

====
